---- MODULE Spec2Model ----
(***************************************************************************)
(* Model of the HackIL26 backend: signup / login / token-protected routes  *)
(* (routes/auth.py), location verification and history                     *)
(* (routes/location.py) over the users table (models/user.py).             *)
(*                                                                         *)
(* Conventions                                                             *)
(*  - a Python str is a sequence of one-character strings;                 *)
(*  - a JSON value is a record [t, s, n]: t is "absent" (key not in the    *)
(*    body), "str" (value s) or "num" (value n);                           *)
(*  - a nullable column is <<>> (NULL) or <<v>>;                           *)
(*  - coordinates are integers in metres of arc, distances in millimetres; *)
(*  - time is counted in days.                                             *)
(***************************************************************************)
EXTENDS Integers, Sequences, FiniteSets, Bags, TLC

\* ------------------------------------------------------------------ bounds
MaxUsers == 2
MaxInFlight == 2
MaxTime == 31

\* --------------------------------------------------------------- constants
\* timedelta(days=30)
TokenDays == 30
\* len(username) < 3, len(password) < 6
MinUsernameLen == 3
MinPasswordLen == 6
\* distance_meters < 200 and distance_meters < 1000, in millimetres
GreenBelow == 200000
YellowBelow == 1000000
\* 90 degrees of latitude and 180 degrees of longitude, in metres of arc
LatLimit == 10000000
LngLimit == 20000000

\* ------------------------------------------------------------- JSON values
Absent == [t |-> "absent", s |-> <<>>, n |-> 0]
Str(s) == [t |-> "str", s |-> s, n |-> 0]
Num(n) == [t |-> "num", s |-> <<>>, n |-> n]

\* Python truthiness of data.get(key): a missing key gives None.
Truthy(v) ==
    \/ v.t = "str" /\ v.s # <<>>
    \/ v.t = "num" /\ v.n # 0

\* str.strip(): drop leading and trailing blanks.
RECURSIVE LStrip(_)
LStrip(s) == IF s # <<>> /\ Head(s) = " " THEN LStrip(Tail(s)) ELSE s

RECURSIVE RStrip(_)
RStrip(s) ==
    IF s # <<>> /\ s[Len(s)] = " " THEN RStrip(SubSeq(s, 1, Len(s) - 1)) ELSE s

Strip(s) == RStrip(LStrip(s))

\* ------------------------------------------------------------ users table
NULL == <<>>

\* werkzeug's generate_password_hash / check_password_hash: the stored
\* credential is a tagged digest of the password, never the password.
generate_password_hash(p) == <<"pbkdf2", p>>

check_password_hash(h, p) == h = generate_password_hash(p)

\* User(username=..., email=...) followed by set_password: the row the
\* INSERT creates, with the autoincrement id and the created_at default.
NewUser(id, username, email, password, t) ==
    [id |-> id,
     username |-> username,
     email |-> email,
     password |-> generate_password_hash(password),
     created_at |-> t,
     last_verified_location |-> NULL,
     last_verified_lat |-> NULL,
     last_verified_lng |-> NULL,
     last_verification_time |-> NULL]

\* User.query.filter_by(username=...) / filter_by(email=...): matching ids.
ByUsername(us, name) == {i \in DOMAIN us : us[i].username = name}

ByEmail(us, mail) == {i \in DOMAIN us : us[i].email = mail}

\* The unique=True constraints of the username and email columns.
UniqueOk(us, username, email) ==
    ByUsername(us, username) = {} /\ ByEmail(us, email) = {}

\* datetime.isoformat(): the timestamp rendered as text.
isoformat(t) == <<"iso", t>>

\* User.to_dict()
to_dict(u) ==
    [id |-> u.id,
     username |-> u.username,
     email |-> u.email,
     created_at |-> isoformat(u.created_at),
     last_verified_location |-> u.last_verified_location,
     last_verification_time |->
         IF u.last_verification_time # NULL
         THEN <<isoformat(u.last_verification_time[1])>> ELSE NULL]

\* ----------------------------------------------------------------- tokens
\* A token is its payload (user_id, exp) and whether its signature verifies
\* under SECRET_KEY; issued_at records when it was encoded (it is not part
\* of the payload and no handler reads it).
NoToken == [user_id |-> 0, exp |-> 0, signed |-> FALSE, issued_at |-> 0]

\* A 29-day lifetime.
IssueTokenShort(id, t) ==
    [user_id |-> id, exp |-> t + TokenDays - 1, signed |-> TRUE, issued_at |-> t]

\* jwt.encode({'user_id': id, 'exp': utcnow() + timedelta(days=30)}, key)
IssueToken(id, t) ==
    [user_id |-> id, exp |-> t + TokenDays, signed |-> TRUE, issued_at |-> t]

\* token_required: the Bearer token must be present, carry a valid
\* signature and not be expired; the result is the id of the account it
\* names, or 0 when the request is answered 401.
TokenUser(tok, us, t) ==
    IF tok.signed /\ t < tok.exp /\ tok.user_id \in DOMAIN us
    THEN tok.user_id ELSE 0

\* ------------------------------------------------- geocoder and distance
s_hq == <<"h", "q">>
s_eq == <<"e", "q">>
s_nowhere == <<"n", "o">>

NoLocation == [found |-> FALSE, address |-> <<>>, latitude |-> 0, longitude |-> 0]

\* geolocator.geocode(query, timeout=10) when the service answers: the
\* canonical address and coordinate of the best match, or None.
Geocode(q) ==
    IF q = s_hq
    THEN [found |-> TRUE, address |-> <<"H", "Q", ",", "U", "S">>,
          latitude |-> 500, longitude |-> 0]
    ELSE IF q = s_eq
    THEN [found |-> TRUE, address |-> <<"E", "Q", ",", "E", "C">>,
          latitude |-> 0, longitude |-> 300]
    ELSE NoLocation

Abs(x) == IF x < 0 THEN 0 - x ELSE x

\* geopy's Point(...) on one coordinate pair: a non-numeric value or a
\* latitude outside [-90, 90] raises ValueError, a longitude outside
\* [-180, 180] is wrapped into range.
PointOk(lat, lng) ==
    /\ lat.t = "num" /\ lng.t = "num"
    /\ Abs(lat.n) <= LatLimit

NormLng(x) ==
    IF Abs(x) > LngLimit THEN ((x + LngLimit) % (2 * LngLimit)) - LngLimit ELSE x

\* geodesic(user_gps, target_gps).meters, in millimetres, on the grid of
\* the model: symmetric, zero exactly between equal points.
geodesic(lat, lng, loc) ==
    1000 * (Abs(lat.n - loc.latitude) + Abs(NormLng(lng.n) - loc.longitude))

\* round(distance_meters, 2): to the nearest centimetre, ties to even.
Round2(d) ==
    LET q == d \div 10
        r == d % 10
    IN  IF r < 5 THEN 10 * q
        ELSE IF r > 5 THEN 10 * (q + 1)
        ELSE IF q % 2 = 0 THEN 10 * q ELSE 10 * (q + 1)

\* The thresholds taken as inclusive upper ends.
ClassifyInclusive(distance) ==
    IF distance <= GreenBelow THEN "GREEN"
    ELSE IF distance <= YellowBelow THEN "YELLOW"
    ELSE "RED"

\* The productivity logic of verify_location.
Classify(distance) ==
    IF distance < GreenBelow THEN "GREEN"
    ELSE IF distance < YellowBelow THEN "YELLOW"
    ELSE "RED"

\* The address and time reach the table without the coordinate.
WriteSnapshotPartial(u, loc, t) ==
    [u EXCEPT !.last_verified_location = <<loc.address>>,
              !.last_verification_time = <<t>>]

\* The write also stamps the creation time of the row.
WriteSnapshotStamping(u, loc, t) ==
    [u EXCEPT !.last_verified_location = <<loc.address>>,
              !.last_verified_lat = <<loc.latitude>>,
              !.last_verified_lng = <<loc.longitude>>,
              !.last_verification_time = <<t>>,
              !.created_at = t + 1]

\* The four assignments to current_user, written by one commit.
WriteSnapshot(u, loc, t) ==
    [u EXCEPT !.last_verified_location = <<loc.address>>,
              !.last_verified_lat = <<loc.latitude>>,
              !.last_verified_lng = <<loc.longitude>>,
              !.last_verification_time = <<t>>]

\* The body of a successful verify_location response.
VerifyBody(u, loc, distance) ==
    LET status == Classify(distance)
    IN  [user_id |-> u.id,
         productivity_status |-> status,
         distance_meters |-> Round2(distance),
         verified_address |-> loc.address,
         verified_coordinates |->
             [latitude |-> loc.latitude, longitude |-> loc.longitude],
         proximity_details |->
             [at_location |-> status = "GREEN",
              nearby |-> status = "YELLOW",
              far_away |-> status = "RED"]]

\* Python truthiness of a nullable Float column value.
FloatTruthy(c) == c # NULL /\ c[1] # 0

\* The body of get_location_history.
HistoryBody(u) ==
    [id |-> u.id,
     username |-> u.username,
     last_verified_location |-> u.last_verified_location,
     last_verified_coordinates |->
         IF FloatTruthy(u.last_verified_lat)
         THEN <<[latitude |-> u.last_verified_lat[1],
                 longitude |-> u.last_verified_lng[1]]>>
         ELSE NULL,
     last_verification_time |->
         IF u.last_verification_time # NULL
         THEN <<isoformat(u.last_verification_time[1])>> ELSE NULL]

\* ------------------------------------------------------------------ state
VARIABLES
    users,      \* the users table: row i has id i
    held,       \* held[i]: the token the client of account i last received
    signups,    \* bag of signup requests between two database statements
    verifies,   \* bag of verify requests waiting for the geocoder
    now,        \* the clock (utcnow), in days
    resp        \* the response sent by the last step, if it sent one

vars == <<users, held, signups, verifies, now, resp>>

NoResp == [kind |-> "none", status |-> 0]

\* What a response leaves on the wire, plus what the handler did on the way
\* (queried / geocoded / wrote), the row it read (row), the raw distance
\* (dist), whether a collaborator failed (failed) and which one: the
\* geocoder raised (geofail), the commit raised (dbfail).
Response(kind, status, tok, data, uid, body) ==
    [kind |-> kind, status |-> status, tok |-> tok, data |-> data,
     uid |-> uid, body |-> body,
     queried |-> FALSE, geocoded |-> FALSE, wrote |-> FALSE,
     failed |-> FALSE, row |-> NULL, dist |-> 0,
     geofail |-> FALSE, dbfail |-> FALSE]

ErrorBody == [status |-> "error"]

InFlight == BagCardinality(signups) + BagCardinality(verifies)

\* A handler runs a step once the previous response has left.
Idle == resp = NoResp

\* A worker is free to take a new request.
Free == Idle /\ InFlight < MaxInFlight

One(r) == SetToBag({r})

Init ==
    /\ users = <<>>
    /\ held = <<>>
    /\ signups = EmptyBag
    /\ verifies = EmptyBag
    /\ now = 0
    /\ resp = NoResp

\* ----------------------------------------------------------------- signup
\* Lines 23-47 of signup: the status the validation answers with, 0 when
\* the request passes (500: .strip() or len() raised and was caught).
SignupValidate(data) ==
    IF ~Truthy(data.username) \/ ~Truthy(data.email) \/ ~Truthy(data.password)
    THEN 400
    ELSE IF data.username.t # "str" \/ data.email.t # "str" THEN 500
    ELSE IF Len(Strip(data.username.s)) < MinUsernameLen THEN 400
    ELSE IF data.password.t # "str" THEN 500
    ELSE IF Len(data.password.s) < MinPasswordLen THEN 400
    ELSE 0

\* signup, from the request to the username query (lines 23-54).
SignupBegin(data) ==
    /\ Free
    /\ Len(users) + BagCardinality(signups) < MaxUsers
    /\ LET v == SignupValidate(data)
           username == Strip(data.username.s)
           email == Strip(data.email.s)
       IN  IF v # 0
           THEN /\ resp' = Response("signup", v, NoToken, data, 0, ErrorBody)
                /\ UNCHANGED signups
           ELSE IF ByUsername(users, username) # {}
           THEN /\ resp' = [Response("signup", 409, NoToken, data, 0, ErrorBody)
                               EXCEPT !.queried = TRUE]
                /\ UNCHANGED signups
           ELSE /\ signups' = signups (+) One([pc |-> "check_email",
                                               data |-> data,
                                               username |-> username,
                                               email |-> email,
                                               password |-> data.password.s])
                /\ resp' = NoResp
    /\ UNCHANGED <<users, held, verifies, now>>

\* signup, the email query (lines 56-60).
SignupCheckEmail(r) ==
    /\ Idle
    /\ BagIn(r, signups) /\ r.pc = "check_email"
    /\ IF ByEmail(users, r.email) # {}
       THEN /\ signups' = signups (-) One(r)
            /\ resp' = [Response("signup", 409, NoToken, r.data, 0, ErrorBody)
                           EXCEPT !.queried = TRUE]
       ELSE /\ signups' = (signups (-) One(r)) (+) One([r EXCEPT !.pc = "commit"])
            /\ resp' = NoResp
    /\ UNCHANGED <<users, held, verifies, now>>

\* An INSERT into a table without the unique constraints.
InsertUnconstrained(us, username, email, ok) == ok

\* An INSERT that stays although the commit raised.
InsertDespiteFailure(us, username, email, ok) == UniqueOk(us, username, email)

\* db.session.add(user); db.session.commit(): the INSERT succeeds when the
\* database works (ok) and the unique constraints hold.
InsertOk(us, username, email, ok) == ok /\ UniqueOk(us, username, email)

\* signup, from the INSERT to the response (lines 62-87).
SignupCommit(r, ok) ==
    /\ Idle
    /\ BagIn(r, signups) /\ r.pc = "commit"
    /\ signups' = signups (-) One(r)
    /\ IF InsertOk(users, r.username, r.email, ok)
       THEN LET id == Len(users) + 1
                user == NewUser(id, r.username, r.email, r.password, now)
                token == IssueToken(id, now)
            IN  /\ users' = Append(users, user)
                /\ held' = Append(held, token)
                /\ resp' = [Response("signup", 201, NoToken, r.data, id,
                                     [token |-> token, user |-> to_dict(user)])
                               EXCEPT !.queried = TRUE, !.wrote = TRUE,
                                      !.row = <<user>>, !.dbfail = ~ok]
       ELSE /\ resp' = [Response("signup", 500, NoToken, r.data, 0, ErrorBody)
                           EXCEPT !.queried = TRUE, !.failed = ~ok,
                                  !.dbfail = ~ok]
            /\ UNCHANGED <<users, held>>
    /\ UNCHANGED <<verifies, now>>

\* ------------------------------------------------------------------ login
\* User.query.filter((username == x) | (email == x)): the matching ids;
\* .first() takes one of them, in an order the query does not fix.
LoginMatches(us, name) == ByUsername(us, name) \cup ByEmail(us, name)

\* login (lines 102-143).
Login(data) ==
    /\ Free
    /\ IF ~Truthy(data.username) \/ ~Truthy(data.password)
       THEN /\ resp' = Response("login", 400, NoToken, data, 0, ErrorBody)
            /\ UNCHANGED held
       ELSE IF data.username.t # "str"
       THEN /\ resp' = Response("login", 500, NoToken, data, 0, ErrorBody)
            /\ UNCHANGED held
       ELSE LET m == LoginMatches(users, Strip(data.username.s))
            IN  IF m = {}
                THEN /\ resp' = [Response("login", 401, NoToken, data, 0, ErrorBody)
                                    EXCEPT !.queried = TRUE]
                     /\ UNCHANGED held
                ELSE \E i \in m :
                        IF data.password.t # "str"
                        THEN /\ resp' = [Response("login", 500, NoToken, data, 0,
                                                  ErrorBody)
                                            EXCEPT !.queried = TRUE]
                             /\ UNCHANGED held
                        ELSE IF ~check_password_hash(users[i].password,
                                                     data.password.s)
                        THEN /\ resp' = [Response("login", 401, NoToken, data, 0,
                                                  ErrorBody)
                                            EXCEPT !.queried = TRUE]
                             /\ UNCHANGED held
                        ELSE LET token == IssueToken(users[i].id, now)
                             IN  /\ held' = [held EXCEPT ![i] = token]
                                 /\ resp' = [Response("login", 200, NoToken, data, i,
                                                 [token |-> token,
                                                  user |-> to_dict(users[i])])
                                                EXCEPT !.queried = TRUE,
                                                       !.row = <<users[i]>>]
    /\ UNCHANGED <<users, signups, verifies, now>>

\* ---------------------------------------------------- protected endpoints
\* A token nobody issued: the signature does not verify.
ForgedToken ==
    [user_id |-> 1, exp |-> MaxTime + TokenDays, signed |-> FALSE, issued_at |-> 0]

\* The Authorization headers a client can send.
Tokens == {held[i] : i \in DOMAIN held} \cup {NoToken, ForgedToken}

Unauthorized(kind, tok, data) == Response(kind, 401, tok, data, 0, ErrorBody)

\* get_profile behind token_required.
Profile(tok) ==
    /\ Free
    /\ LET uid == TokenUser(tok, users, now)
       IN  resp' = IF uid = 0
                   THEN Unauthorized("profile", tok, NULL)
                   ELSE [Response("profile", 200, tok, NULL, uid,
                                  to_dict(users[uid]))
                            EXCEPT !.queried = TRUE, !.row = <<users[uid]>>]
    /\ UNCHANGED <<users, held, signups, verifies, now>>

\* A logout that clears what the server stores about the caller's session.
LogoutClearing(tok) ==
    /\ Free
    /\ LET uid == TokenUser(tok, users, now)
       IN  IF uid = 0
           THEN /\ resp' = Unauthorized("logout", tok, NULL)
                /\ UNCHANGED users
           ELSE /\ resp' = [Response("logout", 200, tok, NULL, uid,
                                     [status |-> "success"])
                               EXCEPT !.queried = TRUE, !.row = <<users[uid]>>]
                /\ users' = [users EXCEPT ![uid] =
                                 [@ EXCEPT !.last_verified_location = NULL,
                                           !.last_verified_lat = NULL,
                                           !.last_verified_lng = NULL,
                                           !.last_verification_time = NULL]]
    /\ UNCHANGED <<held, signups, verifies, now>>

\* logout behind token_required.
Logout(tok) ==
    /\ Free
    /\ LET uid == TokenUser(tok, users, now)
       IN  resp' = IF uid = 0
                   THEN Unauthorized("logout", tok, NULL)
                   ELSE [Response("logout", 200, tok, NULL, uid,
                                  [status |-> "success"])
                            EXCEPT !.queried = TRUE, !.row = <<users[uid]>>]
    /\ UNCHANGED <<users, held, signups, verifies, now>>

\* get_location_history behind token_required.
History(tok) ==
    /\ Free
    /\ LET uid == TokenUser(tok, users, now)
       IN  resp' = IF uid = 0
                   THEN Unauthorized("history", tok, NULL)
                   ELSE [Response("history", 200, tok, NULL, uid,
                                  HistoryBody(users[uid]))
                            EXCEPT !.queried = TRUE, !.row = <<users[uid]>>]
    /\ UNCHANGED <<users, held, signups, verifies, now>>

\* -------------------------------------------------------- verify_location
\* Lines 33-43 of verify_location: the status the handler answers with
\* before it calls the geocoder, 0 when it goes on (500: .strip() raised).
VerifyValidate(data) ==
    IF data.lat.t = "absent" \/ data.lng.t = "absent"
       \/ data.target_address.t = "absent"
    THEN 400
    ELSE IF data.target_address.t # "str" THEN 500
    ELSE 0

\* verify_location behind token_required, up to the call of the geocoder
\* (lines 15-46).
VerifyBegin(tok, data) ==
    /\ Free
    /\ LET uid == TokenUser(tok, users, now)
           v == VerifyValidate(data)
       IN  IF uid = 0
           THEN /\ resp' = Unauthorized("verify", tok, data)
                /\ UNCHANGED verifies
           ELSE IF v # 0
           THEN /\ resp' = [Response("verify", v, tok, data, uid, ErrorBody)
                               EXCEPT !.queried = TRUE]
                /\ UNCHANGED verifies
           ELSE /\ verifies' = verifies (+) One([tok |-> tok, uid |-> uid,
                                   data |-> data,
                                   query |-> Strip(data.target_address.s)])
                /\ resp' = NoResp
    /\ UNCHANGED <<users, held, signups, now>>

\* No test of the geocoder's result.
ResolvedUnchecked(loc) == TRUE

\* `if not location` (lines 48-52): the geocoder found a match.
Resolved(loc) == loc.found

\* An exception of the geocoder taken for an answer.
GeocoderRaisedSwallowed(net) == FALSE

\* geolocator.geocode (line 46) raised (GeocoderTimedOut, GeocoderServiceError,
\* ...): control leaves the try block for `except Exception` (line 90).
GeocoderRaised(net) == net # "ok"

\* verify_location from the geocoder's answer to the response (lines
\* 46-94). net: the geocoder answered ("ok") or raised ("error"); ok: the
\* commit succeeded.
VerifyFinish(r, net, ok) ==
    /\ Idle
    /\ BagIn(r, verifies)
    /\ verifies' = verifies (-) One(r)
    /\ LET loc == Geocode(r.query)
           base == [Response("verify", 500, r.tok, r.data, r.uid, ErrorBody)
                       EXCEPT !.queried = TRUE, !.geocoded = TRUE,
                              !.geofail = (net # "ok")]
           distance == geodesic(r.data.lat, r.data.lng, loc)
       IN  IF GeocoderRaised(net)
           THEN /\ resp' = [base EXCEPT !.failed = TRUE]
                /\ UNCHANGED users
           ELSE IF ~Resolved(loc)
           THEN /\ resp' = [base EXCEPT !.status = 404]
                /\ UNCHANGED users
           ELSE IF ~PointOk(r.data.lat, r.data.lng)
           THEN /\ resp' = base
                /\ UNCHANGED users
           ELSE IF ~ok
           THEN /\ resp' = [base EXCEPT !.failed = TRUE, !.dist = distance,
                                        !.dbfail = TRUE]
                /\ UNCHANGED users
           ELSE /\ users' = [users EXCEPT
                                ![r.uid] = WriteSnapshot(@, loc, now)]
                /\ resp' = [base EXCEPT
                               !.status = 200,
                               !.body = VerifyBody(users[r.uid], loc, distance),
                               !.wrote = TRUE,
                               !.dist = distance,
                               !.row = <<users'[r.uid]>>]
    /\ UNCHANGED <<held, signups, now>>

\* ------------------------------------------------------------------ clock
\* The clock jumps to just before or just after the expiry of a token
\* issued at day 0.
TickSteps == {29, 31}

Tick(d) ==
    /\ Idle
    /\ now + d <= MaxTime
    /\ now' = now + d
    /\ resp' = NoResp
    /\ UNCHANGED <<users, held, signups, verifies>>

\* ----------------------------------------------------------------- inputs
s_ann == <<"a", "n", "n">>
s_bob == <<"b", "o", "b">>
s_ax == <<"a", "@", "x">>
s_ab == <<"a", "b">>
s_secret == <<"s", "e", "c", "r", "e", "t">>
s_wrong == <<"w", "r", "o", "n", "g", "!">>
s_123 == <<"1", "2", "3">>

Pad(s) == <<" ">> \o s \o <<" ">>

SignupData(u, e, p) == [username |-> u, email |-> e, password |-> p]

\* Well-formed signups: ann/a@x, ann/bob (padded username, another
\* password), bob/a@x (padded email): the first collides with each of the
\* others, and "bob" is the email of one and the username of the other.
GoodSignups ==
    {SignupData(Str(s_ann), Str(s_ax), Str(s_secret)),
     SignupData(Str(Pad(s_ann)), Str(s_bob), Str(s_wrong)),
     SignupData(Str(s_bob), Str(Pad(s_ax)), Str(s_secret))}

BadSignups ==
    {SignupData(Str(s_ab), Str(s_ax), Str(s_secret)),
     SignupData(Str(Pad(s_ab)), Str(s_ax), Str(s_secret)),
     SignupData(Str(s_ann), Str(s_ax), Str(s_123)),
     SignupData(Str(s_ann), Absent, Str(s_secret)),
     SignupData(Str(<<>>), Str(s_ax), Str(s_secret)),
     SignupData(Num(7), Str(s_ax), Str(s_secret)),
     SignupData(Str(s_ann), Str(s_ax), Num(123456))}

SignupInputs == GoodSignups \cup BadSignups

LoginData(u, p) == [username |-> u, password |-> p]

LoginInputs ==
    {LoginData(Str(s_ann), Str(s_secret)),
     LoginData(Str(s_bob), Str(s_secret)),
     LoginData(Str(Pad(s_ax)), Str(s_secret)),
     LoginData(Str(s_ann), Str(s_wrong)),
     LoginData(Str(s_bob), Str(s_wrong)),
     LoginData(Absent, Str(s_secret)),
     LoginData(Num(7), Str(s_secret)),
     LoginData(Str(s_ann), Num(123456))}

VerifyData(lat, lng, a) == [lat |-> lat, lng |-> lng, target_address |-> a]

\* Claimed positions at 0 m, 199 m, 200 m, 999 m and 1000 m from "hq".
GoodVerifies ==
    {VerifyData(Num(500), Num(0), Str(Pad(s_hq))),
     VerifyData(Num(500), Num(199), Str(s_hq)),
     VerifyData(Num(500), Num(200), Str(s_hq)),
     VerifyData(Num(1499), Num(0), Str(s_hq)),
     VerifyData(Num(1500), Num(0), Str(s_hq)),
     VerifyData(Num(500), Num(0), Str(s_eq)),
     VerifyData(Num(0), Num(0), Str(s_nowhere))}

BadVerifies ==
    {VerifyData(Absent, Num(0), Str(s_hq)),
     VerifyData(Num(500), Absent, Str(s_hq)),
     VerifyData(Num(500), Num(0), Absent),
     VerifyData(Num(500), Num(0), Num(7)),
     VerifyData(Num(500), Num(0), Str(<<" ", " ">>)),
     VerifyData(Str(s_ab), Num(0), Str(s_hq)),
     VerifyData(Num(LatLimit + 1), Num(0), Str(s_hq)),
     VerifyData(Num(500), Num(2 * LngLimit), Str(s_hq))}

VerifyInputs == GoodVerifies \cup BadVerifies

GeocoderOutcomes == {"ok", "error"}

\* ---------------------------------------------------------- specification
\* return jsonify(...), status: the response leaves the server.
Send ==
    /\ resp # NoResp
    /\ resp' = NoResp
    /\ UNCHANGED <<users, held, signups, verifies, now>>

\* The location flow under every request body, two accounts, no clock.
LocSignups == (GoodSignups \ {SignupData(Str(s_ann), Str(s_ax), Str(s_secret))})
                  \cup BadSignups

LocLogins == {LoginData(Str(s_bob), Str(s_secret))}

Next ==
    \/ \E data \in LocSignups : SignupBegin(data)
    \/ \E r \in BagToSet(signups) : SignupCheckEmail(r)
    \/ \E r \in BagToSet(signups), ok \in BOOLEAN : SignupCommit(r, ok)
    \/ \E data \in LocLogins : Login(data)
    \/ \E tok \in Tokens : Profile(tok)
    \/ \E tok \in Tokens : Logout(tok)
    \/ \E tok \in Tokens : History(tok)
    \/ \E tok \in Tokens, data \in VerifyInputs : VerifyBegin(tok, data)
    \/ \E r \in BagToSet(verifies), net \in GeocoderOutcomes, ok \in BOOLEAN :
          VerifyFinish(r, net, ok)
    \/ Send

Spec == Init /\ [][Next]_vars

\* Signup and login under every request body and every interleaving.
NextAuth ==
    \/ \E data \in SignupInputs : SignupBegin(data)
    \/ \E r \in BagToSet(signups) : SignupCheckEmail(r)
    \/ \E r \in BagToSet(signups), ok \in BOOLEAN : SignupCommit(r, ok)
    \/ \E data \in LoginInputs : Login(data)
    \/ \E tok \in Tokens : Profile(tok)
    \/ Send

SpecAuth == Init /\ [][NextAuth]_vars

\* The protected endpoints while the clock advances.
ClockSignups == {SignupData(Str(s_bob), Str(Pad(s_ax)), Str(s_secret))}

ClockVerifies ==
    {VerifyData(Num(500), Num(0), Str(s_hq)),
     VerifyData(Num(0), Num(0), Str(s_nowhere))}

NextClock ==
    \/ \E data \in ClockSignups : SignupBegin(data)
    \/ \E r \in BagToSet(signups) : SignupCheckEmail(r)
    \/ \E r \in BagToSet(signups), ok \in BOOLEAN : SignupCommit(r, ok)
    \/ \E data \in LocLogins : Login(data)
    \/ \E tok \in Tokens : Profile(tok)
    \/ \E tok \in Tokens : Logout(tok)
    \/ \E tok \in Tokens : History(tok)
    \/ \E tok \in Tokens, data \in ClockVerifies : VerifyBegin(tok, data)
    \/ \E r \in BagToSet(verifies), net \in GeocoderOutcomes, ok \in BOOLEAN :
          VerifyFinish(r, net, ok)
    \/ \E d \in TickSteps : Tick(d)
    \/ Send

SpecClock == Init /\ [][NextClock]_vars

\* ================================================================= claims
Verified200 == resp.kind = "verify" /\ resp.status = 200

SnapshotWhole(u) ==
    \/ /\ u.last_verified_location = NULL
       /\ u.last_verified_lat = NULL
       /\ u.last_verified_lng = NULL
       /\ u.last_verification_time = NULL
    \/ /\ u.last_verified_location # NULL
       /\ u.last_verified_lat # NULL
       /\ u.last_verified_lng # NULL
       /\ u.last_verification_time # NULL

\* C2: in every reachable state, under every interleaving of verify,
\* history and profile requests, each row of the users table has its four
\* last-verification columns all unset or all set, and so has every row a
\* request read.
C2_SnapshotAtomic ==
    /\ \A i \in DOMAIN users : SnapshotWhole(users[i])
    /\ (resp.kind \in {"history", "profile", "login", "logout"}
            /\ resp.status = 200)
           => SnapshotWhole(resp.row[1])

\* C2 witness: a history request read a verified row of an account while
\* another verification of that account was waiting for the geocoder.
C2_Witness ==
    /\ resp.kind = "history" /\ resp.status = 200
    /\ resp.row[1].last_verified_lat # NULL
    /\ \E r \in BagToSet(verifies) : r.uid = resp.uid

\* C3: once an account has been verified, the history response gives the
\* stored snapshot exactly: the stored address, the stored coordinate
\* (latitude 0 or longitude 0 included) and a non-null timestamp.
C3_HistoryExact ==
    (/\ resp.kind = "history" /\ resp.status = 200
     /\ resp.row[1].last_verification_time # NULL)
        => /\ resp.body.last_verified_location =
                  resp.row[1].last_verified_location
           /\ resp.body.last_verified_coordinates =
                  <<[latitude |-> resp.row[1].last_verified_lat[1],
                     longitude |-> resp.row[1].last_verified_lng[1]]>>
           /\ resp.body.last_verification_time # NULL

\* The address a verify request asks for, as the handler passes it on.
AskedAddress(data) == Strip(data.target_address.s)

\* C4: when the geocoder answers a verify request with no match, the
\* response is 404 with an error body and the step leaves the users table,
\* hence the caller's snapshot, as it was.
C4_NotFoundStep ==
    (/\ resp'.kind = "verify" /\ resp'.geocoded /\ ~resp'.failed
     /\ ~Geocode(AskedAddress(resp'.data)).found)
        => /\ resp'.status = 404
           /\ resp'.body = ErrorBody
           /\ ~resp'.wrote
           /\ users' = users

C4_NotFound == [][C4_NotFoundStep]_vars

\* C4 witness: an account with a stored snapshot was answered 404 and the
\* snapshot is still there.
C4_Witness ==
    /\ resp.kind = "verify" /\ resp.status = 404
    /\ users[resp.uid].last_verified_location # NULL

\* A signup body whose three fields are strings that pass the length rules.
WellFormedSignup(data) ==
    /\ data.username.t = "str" /\ data.email.t = "str"
    /\ data.password.t = "str"
    /\ Len(Strip(data.username.s)) >= 3
    /\ Strip(data.email.s) # <<>>
    /\ Len(data.password.s) >= 6

\* The accounts, other than the one the response reports as created, that
\* carry the username or the email a signup body asks for.
Taken(data) ==
    {i \in DOMAIN users :
        /\ i # resp.uid
        /\ \/ users[i].username = Strip(data.username.s)
           \/ users[i].email = Strip(data.email.s)}

\* C5: a well-formed signup whose username or email belongs to an existing
\* account is answered 409 and creates no account, whatever the
\* interleaving of signups (the database itself working).
C5_DuplicateIs409 ==
    (/\ resp.kind = "signup" /\ WellFormedSignup(resp.data)
     /\ ~resp.failed
     /\ Taken(resp.data) # {})
        => resp.status = 409 /\ ~resp.wrote

\* The passwords of the request bodies.
Passwords == {s_secret, s_wrong, s_123}

\* C6: no two accounts share a username or an email; every stored username
\* is trimmed and at least 3 long and every stored credential comes from a
\* password at least 6 long; a signup with a too-short username or
\* password is answered 400 and creates no account.
C6_StoreConstraints ==
    /\ \A i, j \in DOMAIN users :
          i # j => /\ users[i].username # users[j].username
                   /\ users[i].email # users[j].email
    /\ \A i \in DOMAIN users :
          /\ users[i].id = i
          /\ users[i].username = Strip(users[i].username)
          /\ Len(users[i].username) >= 3
          /\ \E p \in Passwords :
                Len(p) >= 6 /\ check_password_hash(users[i].password, p)
    /\ (/\ resp.kind = "signup"
        /\ resp.data.username.t = "str" /\ resp.data.email.t = "str"
        /\ resp.data.password.t = "str"
        /\ resp.data.email.s # <<>>
        /\ \/ Len(Strip(resp.data.username.s)) < 3
           \/ Len(resp.data.password.s) < 6)
           => resp.status = 400 /\ ~resp.wrote

\* C6 witness: of two signups in flight together one created its account
\* and the other was stopped by the unique constraints of the table.
C6_Witness ==
    /\ Len(users) >= 1
    /\ resp.kind = "signup" /\ resp.status = 500 /\ ~resp.failed
    /\ WellFormedSignup(resp.data)

\* The accounts a login body names by username or email with the right
\* password.
Owners(data) ==
    {i \in DOMAIN users :
        /\ \/ users[i].username = Strip(data.username.s)
           \/ users[i].email = Strip(data.username.s)
        /\ check_password_hash(users[i].password, data.password.s)}

\* The accounts a login body names by username or email.
Named(data) ==
    {i \in DOMAIN users :
        \/ users[i].username = Strip(data.username.s)
        \/ users[i].email = Strip(data.username.s)}

\* C7: a login with an account's username or email and its signup password
\* is answered 200 with a token that identifies that account, whatever
\* other accounts exist; a login naming accounts with a password that is
\* not theirs is answered 401.
C7_LoginOwnAccount ==
    (/\ resp.kind = "login"
     /\ resp.data.username.t = "str" /\ resp.data.password.t = "str")
        => /\ \A i \in Owners(resp.data) :
                 /\ resp.status = 200
                 /\ resp.body.token.user_id = users[i].id
                 /\ resp.body.token.signed
           /\ (Named(resp.data) # {} /\ Owners(resp.data) = {})
                 => resp.status = 401

\* A token that signup or login issued less than 30 days before t.
Fresh(tok, t) ==
    /\ tok.signed
    /\ tok.issued_at <= t
    /\ t - tok.issued_at < 30

\* The verify requests a step admitted to the geocoder wait.
Admitted ==
    {r \in BagToSet(verifies') : CopiesIn(r, verifies') > CopiesIn(r, verifies)}

\* C8: a protected endpoint (profile, logout, history, verify) accepts a
\* request iff its token was issued by signup or login less than 30 days
\* earlier: accepted 29 days after issue, answered 401 after 31 days; a
\* request answered 401 changes no account.
C8_TokenStep ==
    /\ (resp'.kind \in {"profile", "logout", "history"} /\ resp' # resp)
           => (resp'.status # 401 <=> Fresh(resp'.tok, now))
    /\ (resp'.kind = "verify" /\ verifies' = verifies /\ resp' # resp)
           => (resp'.status # 401 <=> Fresh(resp'.tok, now))
    /\ \A r \in Admitted : Fresh(r.tok, now)
    /\ (resp'.kind \in {"profile", "logout", "history", "verify"}
            /\ resp'.status # 401 /\ resp' # resp /\ verifies' = verifies)
           => (now - resp'.tok.issued_at < 30 /\ resp'.uid = resp'.tok.user_id)
    /\ (resp'.status = 401 /\ resp'.kind # "login")
           => users' = users

C8_TokenWindow == [][C8_TokenStep]_vars

\* C8 witness: a token issued to an account was answered 401 by a
\* protected endpoint 31 days after its issue.
C8_Witness ==
    /\ resp.kind \in {"profile", "logout", "history", "verify"}
    /\ resp.status = 401
    /\ resp.tok.signed /\ resp.tok.user_id \in DOMAIN users
    /\ now = resp.tok.issued_at + 31

\* A number that is a latitude (longitude) in range.
LatOk(v) == v.t = "num" /\ v.n >= 0 - LatLimit /\ v.n <= LatLimit

LngOk(v) == v.t = "num" /\ v.n >= 0 - LngLimit /\ v.n <= LngLimit

\* A verify body with lat, lng and target_address present and well-formed:
\* coordinates numeric and in range, address a string that is not empty
\* once trimmed.
WellFormedVerify(data) ==
    /\ LatOk(data.lat)
    /\ LngOk(data.lng)
    /\ data.target_address.t = "str"
    /\ Strip(data.target_address.s) # <<>>

\* A signup body with a field missing or a username or password too short.
RejectableSignup(data) ==
    \/ ~Truthy(data.username) \/ ~Truthy(data.email) \/ ~Truthy(data.password)
    \/ data.username.t = "str" /\ Len(Strip(data.username.s)) < 3
    \/ data.password.t = "str" /\ Len(data.password.s) < 6

\* C9: validation comes before any persistence operation or external
\* call: a verify request with a missing or malformed lat, lng or
\* target_address never reaches the geocoder nor writes the snapshot, and
\* a signup with missing or too-short fields never queries nor writes the
\* users table.
C9_ValidateFirst ==
    /\ (resp.kind = "verify" /\ ~WellFormedVerify(resp.data))
           => ~resp.geocoded /\ ~resp.wrote
    /\ (resp.kind = "signup" /\ RejectableSignup(resp.data))
           => ~resp.queried /\ ~resp.wrote

\* C10: an authenticated verify request fails only when its body is
\* missing or malformed, when the address is not resolved or when the
\* write fails; a missing or malformed body is answered 400, never 500;
\* a well-formed body with a resolved address and a successful write is
\* answered 200.
C10_VerifyFailures ==
    (resp.kind = "verify" /\ resp.status # 401)
        => /\ ~WellFormedVerify(resp.data) => resp.status = 400
           /\ resp.status # 200 =>
                 \/ ~WellFormedVerify(resp.data)
                 \/ ~Geocode(AskedAddress(resp.data)).found
                 \/ resp.failed
           /\ (/\ WellFormedVerify(resp.data)
               /\ Geocode(AskedAddress(resp.data)).found
               /\ ~resp.failed)
                 => resp.status = 200

\* C11 as stated: when the geocoder call of a verify request raises (a
\* timeout, a network or request error), the response is the 404 of an
\* unresolvable address and the step leaves the caller's snapshot as it was.
C11_Error404Step ==
    (resp'.kind = "verify" /\ resp'.geofail)
        => /\ resp'.status = 404
           /\ resp'.body = ErrorBody
           /\ users' = users

C11_Error500Step ==
    (resp'.kind = "verify" /\ resp'.geofail)
        => /\ resp'.status = 500
           /\ resp'.body = ErrorBody
           /\ ~resp'.wrote
           /\ users' = users

C12_FailedWriteStep ==
    /\ (resp'.kind = "signup" /\ resp'.dbfail)
           => /\ resp'.status = 500
              /\ ~resp'.wrote
              /\ users' = users
              /\ held' = held
    /\ (resp'.kind = "verify" /\ resp'.dbfail)
           => /\ resp'.status = 500
              /\ ~resp'.wrote
              /\ users' = users
    /\ (resp'.kind \in {"profile", "logout", "history"} /\ resp'.status = 200)
           => resp'.row = <<users[resp'.uid]>>

C12_FailedWriteRolledBack == [][C12_FailedWriteStep]_vars

\* C12 witness: the commit of a verification failed for a caller whose
\* stored snapshot is of another address than the one asked for, and the
\* stored snapshot is still the old one.
C12_Witness ==
    /\ resp.kind = "verify" /\ resp.dbfail /\ resp.status = 500
    /\ Geocode(AskedAddress(resp.data)).found
    /\ users[resp.uid].last_verified_location # NULL
    /\ users[resp.uid].last_verified_location
           # Geocode(AskedAddress(resp.data)).address

\* The tokens signup and login can issue.
IssuedTokens == {IssueToken(i, t) : i \in 1..MaxUsers, t \in 0..MaxTime}

\* A logout answered 200 leaves the accounts, the tokens in the clients'
\* hands, the requests in flight and the clock as they were, and its token
\* still passes the check of the protected endpoints.
C13_LogoutStep ==
    (resp'.kind = "logout" /\ resp'.status = 200)
        => /\ UNCHANGED <<users, held, signups, verifies, now>>
           /\ resp'.body = [status |-> "success"]
           /\ TokenUser(resp'.tok, users', now') = resp'.uid

\* A protected endpoint answered a request carrying token t before the
\* expiry of t.
C13_UsedInTime(t) ==
    /\ resp.kind \in {"profile", "logout", "history", "verify"}
    /\ resp.tok = t
    /\ now < t.exp

\* C13: logout is stateless: POST /api/auth/logout with a valid token is
\* answered 200 and changes no server state, and from then on every
\* protected endpoint still accepts the same token until it expires.
C13_LogoutStateless ==
    /\ [][C13_LogoutStep]_vars
    /\ \A t \in IssuedTokens :
          []((resp.kind = "logout" /\ resp.status = 200 /\ resp.tok = t)
                => [](C13_UsedInTime(t) => resp.status # 401))

\* C13 witness: logout answered 200, 29 days after the issue of its token,
\* to an account with a stored snapshot, which is still there.
C13_Witness ==
    /\ resp.kind = "logout" /\ resp.status = 200
    /\ now = resp.tok.issued_at + 29
    /\ users[resp.uid].last_verified_location # NULL

\* The columns of an account that no request changes after signup.
Identity(u) == <<u.id, u.username, u.email, u.password, u.created_at>>

\* C14: accounts change only by signup, which adds one, and by a
\* successful verify_location, which changes only the four
\* last-verification fields of the authenticated caller; the id, username,
\* email, password and created_at of every account stay as they are;
\* login, profile, logout and history change no account; no step removes
\* an account.
C14_FrameStep ==
    /\ Len(users') >= Len(users)
    /\ \A i \in DOMAIN users : Identity(users'[i]) = Identity(users[i])
    /\ users' # users
           => \/ /\ resp'.kind = "signup" /\ resp'.status = 201
                 /\ Len(users') = Len(users) + 1
                 /\ \A i \in DOMAIN users : users'[i] = users[i]
              \/ /\ resp'.kind = "verify" /\ resp'.status = 200
                 /\ Len(users') = Len(users)
                 /\ resp'.uid = resp'.tok.user_id
                 /\ \A i \in DOMAIN users \ {resp'.uid} : users'[i] = users[i]
    /\ resp'.kind \in {"login", "profile", "logout", "history"}
           => users' = users

C14_AccountsFrame == [][C14_FrameStep]_vars

\* C14 witness: a verification succeeded for one of two accounts while the
\* other account keeps a snapshot of another address.
C14_Witness ==
    /\ Verified200 /\ resp.wrote
    /\ Len(users) = 2
    /\ \E j \in DOMAIN users \ {resp.uid} :
          /\ users[j].last_verified_location # NULL
          /\ users[j].last_verified_location
                 # users[resp.uid].last_verified_location

====
